---- MODULE Spec2Model ----
(***************************************************************************)
(* BaseVk (src/src/renderer/vk/base_vk.rs): bring-up of a Vulkan 1.1       *)
(* context (BaseVk::new), swapchain (re)creation                           *)
(* (BaseVk::recreate_swapchain) and teardown (Drop for BaseVk), together   *)
(* with the part of the Vulkan driver these operations talk to.            *)
(***************************************************************************)
EXTENDS Integers, Sequences, FiniteSets, TLC

VARIABLES
    \* ---- arguments of BaseVk::new and the build configuration
    window_handle,                      \* tag of Option<RawWindowHandle>
    device_extensions,                  \* requested device extension names
    desired_physical_device_features2,  \* requested features2 chain (caller-owned)
    desired_queues,                     \* sequence of requested queue flag sets
    debug_assertions,                   \* cfg(debug_assertions)
    \* ---- the machine the program runs on
    physical_devices,                   \* answer of enumerate_physical_devices
    \* ---- fields of BaseVk
    surface,
    surface_fn,
    physical_device,
    queue_family_index,
    queues,
    swapchain_fn,
    swapchain_create_info,
    swapchain,
    swapchain_image_views,
    \* ---- objects held by the driver
    vk_swapchains,                      \* every swapchain ever created
    vk_image_views,                     \* every image view ever created
    calls,                              \* create/destroy calls issued, in order
    vk_buffers,                         \* every buffer ever created
    \* ---- the allocator's bookkeeping and what the caller owns
    allocations,                        \* every suballocation ever handed out
    held_buffers,                       \* BufferAllocation pairs returned, not yet destroyed
    \* ---- control
    pc,                                 \* "start", "alive", "fatal", "dropped"
    outcome,                            \* last operation and how it ended
    stdout,                             \* lines printed
    recreate_calls,                     \* number of recreate_swapchain calls made
    panics,                             \* how many of them panicked
    last_call,                          \* arguments and driver answers of the last one
    \* ---- the feature-compare helper called on its own
    available_device_features,          \* the chain the device filled in
    compare_result,                     \* what the helper returned, once called
    \* ---- command pools and buffers
    vk_command_pools,                   \* every command pool ever created
    vk_command_buffers,                 \* every command buffer ever allocated
    held_commands,                      \* CommandRecordInfo values returned, not yet destroyed
    last_commands,                      \* arguments of the last create_cmd_pool_and_buffers
    \* ---- the features2 chains
    chain_log                           \* what new did to the caller's chain and to its clone

inputs == <<window_handle, device_extensions, desired_physical_device_features2,
            desired_queues, debug_assertions, physical_devices>>
fields == <<surface, surface_fn, physical_device, queue_family_index, queues,
            swapchain_fn, swapchain_create_info, swapchain, swapchain_image_views>>
driver == <<vk_swapchains, vk_image_views, calls>>
control == <<pc, outcome, stdout, recreate_calls, panics, last_call>>
resources == <<vk_buffers, allocations, held_buffers>>
helper == <<available_device_features, compare_result>>
commands == <<vk_command_pools, vk_command_buffers, held_commands, last_commands>>
vars == <<inputs, fields, driver, control, resources, helper, commands, chain_log>>

----------------------------------------------------------------------------
(* Bounds of the model *)
MaxDevices == 2      \* physical devices enumerated
MaxQueues == 2       \* queues requested
MaxRecreate == 2     \* recreate_swapchain calls in one run
MaxExtraImages == 1  \* images the driver hands out beyond minImageCount
MaxBuffers == 3      \* allocate_buffer calls in one run
MaxCmdPools == 2     \* create_cmd_pool_and_buffers calls in one run
MaxCmdBuffers == 2   \* command buffers asked of one pool

----------------------------------------------------------------------------
(* Option<T> and Vulkan handles *)
None == <<>>
Some(x) == <<x>>
IsSome(o) == o # <<>>
Unwrap(o) == o[1]

NullHandle == 0                 \* vk::SurfaceKHR::null(), vk::SwapchainKHR::null()
SentinelRobust == 300           \* the value written at base_vk.rs:233

Call(op, h) == [op |-> op, h |-> h]

RECURSIVE Concat(_)
Concat(ss) == IF ss = <<>> THEN <<>> ELSE Head(ss) \o Concat(Tail(ss))

Range(s) == {s[i] : i \in DOMAIN s}

----------------------------------------------------------------------------
(* Features2 pointer chain.  A chain is a sequence of nodes, the root      *)
(* VkPhysicalDeviceFeatures2 first; a node is its structure type and its   *)
(* VkBool32 fields.                                                        *)

RootType == "PHYSICAL_DEVICE_FEATURES_2"

FieldsOf(s_type) ==
    CASE s_type = RootType -> {"robust_buffer_access", "geometry_shader"}
      [] s_type = "PHYSICAL_DEVICE_MULTIVIEW_FEATURES" -> {"multiview"}
      [] s_type = "PHYSICAL_DEVICE_16BIT_STORAGE_FEATURES" -> {"storage_buffer16_bit_access"}

Node(s_type, set) ==
    [s_type |-> s_type, bits |-> [f \in FieldsOf(s_type) |-> IF f \in set THEN 1 ELSE 0]]

\* Deep clone: same structure types in the same order, feature bits zeroed.
clone_vk_physical_device_features2(source) ==
    [i \in DOMAIN source |->
        [s_type |-> source[i].s_type,
         bits |-> [f \in DOMAIN source[i].bits |-> 0]]]

\* The driver writes, into every node of the chain, what the device supports.
get_physical_device_features2(dev, chain) ==
    [i \in DOMAIN chain |->
        [s_type |-> chain[i].s_type,
         bits |-> [f \in DOMAIN chain[i].bits |-> IF f \in dev.features THEN 1 ELSE 0]]]

\* requested <= available: every node of the requested chain has a node of the
\* same type in the available chain with every requested bit set (first, the
\* chains walked in step, node against node).
compare_vk_physical_device_features2_in_step(available, desired) ==
    \A i \in DOMAIN desired :
        /\ i \in DOMAIN available
        /\ available[i].s_type = desired[i].s_type
        /\ \A f \in DOMAIN desired[i].bits :
               desired[i].bits[f] # 0 => available[i].bits[f] # 0
compare_vk_physical_device_features2(available, desired) ==
    \A i \in DOMAIN desired :
        \E j \in DOMAIN available :
            /\ available[j].s_type = desired[i].s_type
            /\ \A f \in DOMAIN desired[i].bits :
                   desired[i].bits[f] # 0 => available[j].bits[f] # 0

\* base_vk.rs:229-233: the query into the clone, then the write of 300.
QueriedFeatures(dev, clone) ==
    LET answered == get_physical_device_features2(dev, clone)
    IN  [answered EXCEPT ![1].bits["robust_buffer_access"] = SentinelRobust]

----------------------------------------------------------------------------
(* BaseVk::new: physical device selection (base_vk.rs:190-295) *)

WindowTags == {"Win32", "Xlib", "Wayland"}

\* base_vk.rs:156-188
HasSurface == window_handle \in WindowTags

\* base_vk.rs:190-198
DesiredDeviceExtensions ==
    IF HasSurface THEN device_extensions \cup {"VK_KHR_swapchain"} ELSE device_extensions

\* base_vk.rs:213-226
SupportsExtensions(dev) == \A e \in DesiredDeviceExtensions : e \in dev.extensions

\* base_vk.rs:228-239
SupportsFeatures(dev) ==
    compare_vk_physical_device_features2(
        QueriedFeatures(dev, clone_vk_physical_device_features2(desired_physical_device_features2)),
        desired_physical_device_features2)

\* base_vk.rs:255-280, the closure of find: family i (0-based) of dev
\* (first, the closure without its presentation test)
IsFamilyQueueGoodNoPresent(dev, i) ==
    LET queue_family == dev.families[i + 1]
    IN  /\ \A q \in DOMAIN desired_queues : desired_queues[q] \subseteq queue_family.queue_flags
        /\ Len(desired_queues) <= queue_family.queue_count
IsFamilyQueueGood(dev, i) ==
    LET queue_family == dev.families[i + 1]
    IN  /\ \A q \in DOMAIN desired_queues : desired_queues[q] \subseteq queue_family.queue_flags
        /\ Len(desired_queues) <= queue_family.queue_count
        /\ (HasSurface => queue_family.present)

\* base_vk.rs:251-280: Iterator::find, the first good family or None
good_family_queues(dev) ==
    LET good == {i \in 0 .. Len(dev.families) - 1 : IsFamilyQueueGood(dev, i)}
    IN  IF good = {} THEN None
        ELSE Some(CHOOSE i \in good : \A j \in good : i <= j)

\* base_vk.rs:212-286: the closure of filter_map for the device at position d
Candidate(d) ==
    LET dev == physical_devices[d]
    IN  IF ~SupportsExtensions(dev) THEN None
        ELSE IF ~SupportsFeatures(dev) THEN None
        ELSE IF IsSome(good_family_queues(dev))
             THEN Some(<<d, Unwrap(good_family_queues(dev))>>)
             ELSE None

\* base_vk.rs:206-287: filter_map(...).collect(), in enumeration order
good_devices == Concat([d \in DOMAIN physical_devices |-> Candidate(d)])

\* base_vk.rs:295
selected_device == good_devices[1]

\* base_vk.rs:325-328 (first, the loop with the index left at 0)
QueuesAllZero == [i \in 1 .. Len(desired_queues) |-> [family |-> selected_device[2], index |-> 0]]
Queues == [i \in 1 .. Len(desired_queues) |-> [family |-> selected_device[2], index |-> i - 1]]

\* Calls made up to the end of device selection (base_vk.rs:124-289)
BringUpCalls ==
    <<Call("create_instance", 1)>>
    \o (IF debug_assertions THEN <<Call("create_debug_utils_messenger", 1)>> ELSE <<>>)
    \o (IF HasSurface THEN <<Call("create_surface", 1)>> ELSE <<>>)

\* base_vk.rs:320-323 (first, the loader never made)
SwapchainFnNever == None
SwapchainFn == IF window_handle # "None" THEN Some("khr::Swapchain") ELSE None

\* What new does to a features2 chain: op on the caller's chain or on the clone,
\* for the device at position device (0: for none)
ChainOp(op, chain, device) == [op |-> op, chain |-> chain, device |-> device]

\* base_vk.rs:229-233: the chain the device's features are written into (first,
\* the caller's own)
QueryTargetCaller == "caller"
QueryTarget == "clone"

\* base_vk.rs:212-239: the closure of filter_map up to the comparison
ExamineDevice(d) ==
    IF ~SupportsExtensions(physical_devices[d]) THEN <<>>
    ELSE <<ChainOp("get_physical_device_features2", QueryTarget, d),
           ChainOp("write robust_buffer_access", QueryTarget, d),
           ChainOp("compare", QueryTarget, d)>>

\* base_vk.rs:200-288: the clone made, every device examined, the clone destroyed
SelectionChainOps ==
    <<ChainOp("clone", "clone", 0)>>
    \o Concat([d \in DOMAIN physical_devices |-> ExamineDevice(d)])
    \o <<ChainOp("destroy", "clone", 0)>>

\* base_vk.rs:310-314: the chain handed to create_device
DeviceChain == "caller"

\* base_vk.rs:97-113: no window, or one of a windowing system the match names
\* (first, with the catch-all arm left out)
RecognizedWindowHandleAny == TRUE
RecognizedWindowHandle == window_handle \in WindowTags \cup {"None"}

\* base_vk.rs:63-359
New ==
    /\ pc = "start"
    /\ IF ~RecognizedWindowHandle
       THEN \* base_vk.rs:109-111: before anything has been created
            /\ pc' = "fatal"
            /\ outcome' = [op |-> "new", result |-> "Unrecognized window handle"]
            /\ UNCHANGED <<fields, driver, stdout, chain_log>>
       ELSE IF good_devices = <<>>
       THEN \* base_vk.rs:295
            /\ pc' = "fatal"
            /\ outcome' = [op |-> "new", result |-> "No available device found"]
            /\ calls' = calls \o BringUpCalls
            /\ chain_log' = SelectionChainOps
            /\ UNCHANGED <<fields, vk_swapchains, vk_image_views, stdout>>
       ELSE /\ pc' = "alive"
            /\ outcome' = [op |-> "new", result |-> "ok"]
            /\ stdout' = IF Len(good_devices) > 1
                         THEN Append(stdout, "More than one device available selecting the first")
                         ELSE stdout
            /\ calls' = calls \o BringUpCalls
                        \o <<Call("create_device", 1), Call("Allocator::new", 1)>>
            /\ chain_log' = Append(SelectionChainOps,
                                   ChainOp("create_device", DeviceChain, selected_device[1]))
            /\ surface' = IF HasSurface THEN 1 ELSE NullHandle
            /\ surface_fn' = IF HasSurface THEN Some("khr::Surface") ELSE None
            /\ physical_device' = selected_device[1]
            /\ queue_family_index' = selected_device[2]
            /\ queues' = Queues
            /\ swapchain_fn' = SwapchainFn
            /\ swapchain_create_info' = None
            /\ swapchain' = NullHandle
            /\ swapchain_image_views' = None
            /\ UNCHANGED <<vk_swapchains, vk_image_views>>
    /\ UNCHANGED <<inputs, recreate_calls, panics, last_call, resources, helper, commands>>

----------------------------------------------------------------------------
(* BaseVk::recreate_swapchain (base_vk.rs:361-499) *)

\* The u32 fields of the capabilities and of the create-info are kept as words
\* of 16 bits (TLC's integers are 32-bit signed): arithmetic wraps at U32, and
\* the all-ones word stands for 0xFFFFFFFF.
U32 == 65536
ExtentSentinel == U32 - 1       \* 0xFFFFFFFF, base_vk.rs:411-412

Min(a, b) == IF a <= b THEN a ELSE b

\* num::clamp
clamp(input, min, max) == IF input < min THEN min ELSE IF input > max THEN max ELSE input

\* base_vk.rs:368-377: the builder's fields, the rest Default::default()
\* (first, the builder without old_swapchain)
SeedCreateInfoNullOld ==
    [image_array_layers |-> 1,
     surface |-> surface,
     pre_transform |-> "IDENTITY",
     composite_alpha |-> "OPAQUE",
     clipped |-> TRUE,
     old_swapchain |-> NullHandle,
     present_mode |-> "IMMEDIATE",
     min_image_count |-> 0,
     image_extent |-> [width |-> 0, height |-> 0],
     image_usage |-> {},
     image_format |-> "UNDEFINED",
     image_color_space |-> "SRGB_NONLINEAR"]
SeedCreateInfo ==
    [image_array_layers |-> 1,
     surface |-> surface,
     pre_transform |-> "IDENTITY",
     composite_alpha |-> "OPAQUE",
     clipped |-> TRUE,
     old_swapchain |-> swapchain,
     present_mode |-> "IMMEDIATE",
     min_image_count |-> 0,
     image_extent |-> [width |-> 0, height |-> 0],
     image_usage |-> {},
     image_format |-> "UNDEFINED",
     image_color_space |-> "SRGB_NONLINEAR"]

\* base_vk.rs:382-391 (first, the desired mode taken without looking for it)
ChosenPresentModeAsDesired(modes, present_mode) == present_mode
ChosenPresentMode(modes, present_mode) ==
    IF \E i \in DOMAIN modes : modes[i] = present_mode THEN present_mode ELSE "FIFO"

\* base_vk.rs:401-408 (first, without the reduction to max_image_count)
MinImageCountUncapped(caps) == (caps.min_image_count + 1) % U32
\* (second, counting up from the count of the create-info in place)
MinImageCountFromPrevious(caps) ==
    LET plus_one == IF IsSome(swapchain_create_info)
                    THEN (Unwrap(swapchain_create_info).min_image_count + 1) % U32
                    ELSE (caps.min_image_count + 1) % U32
    IN  IF caps.max_image_count # 0 THEN Min(plus_one, caps.max_image_count) ELSE plus_one
MinImageCount(caps) ==
    LET plus_one == (caps.min_image_count + 1) % U32
    IN  IF caps.max_image_count # 0 THEN Min(plus_one, caps.max_image_count) ELSE plus_one

\* base_vk.rs:410-427 (first, with the sentinel looked for in either dimension)
ImageExtentEitherSentinel(caps, window_size) ==
    IF caps.current_extent.width = ExtentSentinel \/ caps.current_extent.height = ExtentSentinel
    THEN [width |-> clamp(window_size.width, caps.min_image_extent.width,
                          caps.max_image_extent.width),
          height |-> clamp(window_size.height, caps.min_image_extent.height,
                           caps.max_image_extent.height)]
    ELSE caps.current_extent
ImageExtent(caps, window_size) ==
    IF caps.current_extent.width = ExtentSentinel /\ caps.current_extent.height = ExtentSentinel
    THEN [width |-> clamp(window_size.width, caps.min_image_extent.width,
                          caps.max_image_extent.width),
          height |-> clamp(window_size.height, caps.min_image_extent.height,
                           caps.max_image_extent.height)]
    ELSE caps.current_extent

\* base_vk.rs:429-433: the check of the requested usage flags (first, with the
\* check left out)
UsageSupportedAlways(caps, usage_flags) == TRUE
UsageSupported(caps, usage_flags) == usage_flags \subseteq caps.supported_usage_flags

\* base_vk.rs:447-450 (first, with the formats compared and not the color spaces)
ChosenFormatByFormat(supported_formats, surface_format) ==
    IF \E i \in DOMAIN supported_formats : supported_formats[i].format = surface_format.format
    THEN LET first == CHOOSE i \in DOMAIN supported_formats :
                          /\ supported_formats[i].format = surface_format.format
                          /\ \A j \in 1 .. i - 1 :
                                 supported_formats[j].format # surface_format.format
         IN  supported_formats[first]
    ELSE supported_formats[1]
ChosenFormat(supported_formats, surface_format) ==
    IF \E i \in DOMAIN supported_formats : supported_formats[i] = surface_format
    THEN surface_format
    ELSE supported_formats[1]

\* The recreate_swapchain call panicked before create_swapchain returned: only
\* the create-info, written in place, has changed (first, with the held views
\* destroyed and the sequence cleared at the start of the call).
PanickedEarlyViewsDestroyed(info, msg) ==
    LET held == IF IsSome(swapchain_image_views) THEN Unwrap(swapchain_image_views) ELSE <<>>
    IN  /\ swapchain_create_info' = Some(info)
        /\ outcome' = [op |-> "recreate_swapchain", result |-> msg]
        /\ panics' = panics + 1
        /\ vk_image_views' =
               [v \in DOMAIN vk_image_views |->
                   IF v \in {held[i] : i \in DOMAIN held}
                   THEN [vk_image_views[v] EXCEPT !.live = FALSE]
                   ELSE vk_image_views[v]]
        /\ calls' = calls \o [i \in DOMAIN held |-> Call("destroy_image_view", held[i])]
        /\ swapchain_image_views' = Some(<<>>)
        /\ UNCHANGED <<swapchain, vk_swapchains>>
PanickedEarly(info, msg) ==
    /\ swapchain_create_info' = Some(info)
    /\ outcome' = [op |-> "recreate_swapchain", result |-> msg]
    /\ panics' = panics + 1
    /\ UNCHANGED <<swapchain, swapchain_image_views, driver>>

\* The image views the Context holds (none when the field is None)
HeldViews == IF IsSome(swapchain_image_views) THEN Unwrap(swapchain_image_views) ELSE <<>>

\* base_vk.rs:462-469: the views destroyed before the new ones are made
\* (first, the sequence cleared without destroying its views)
OldViewsKept == <<>>
OldViews == HeldViews

\* base_vk.rs:466-468: what the sequence holds before the new views are pushed
\* (first, the sequence not cleared)
RetainedViewsNotCleared == HeldViews
RetainedViews == <<>>

DestroyViews(objs, views) ==
    [v \in DOMAIN objs |-> IF v \in Range(views) THEN [objs[v] EXCEPT !.live = FALSE] ELSE objs[v]]

\* base_vk.rs:477-497: the image of the i-th view created (1-based), h the swapchain
ViewImage(h, i) == [swapchain |-> h, index |-> i - 1]

\* base_vk.rs:455-497: create_swapchain has returned handle h with n images; the
\* old views are destroyed, then k views are created (k < n: the (k+1)-th
\* create_image_view failed; images = FALSE: get_swapchain_images failed).
AfterCreate(info, n, images_ok, k) ==
    LET h == Len(vk_swapchains) + 1
        first == Len(vk_image_views)
        made == IF images_ok THEN k ELSE 0
        new_views == [i \in 1 .. made |-> first + i]
    IN  /\ swapchain_create_info' = Some(info)
        /\ swapchain' = h
        /\ vk_swapchains' = Append(vk_swapchains, [create_info |-> info, images |-> n, live |-> TRUE])
        /\ vk_image_views' =
               DestroyViews(vk_image_views, OldViews)
               \o [i \in 1 .. made |->
                      [image |-> ViewImage(h, i), format |-> info.image_format, live |-> TRUE]]
        /\ swapchain_image_views' = Some(RetainedViews \o new_views)
        /\ calls' = calls \o <<Call("create_swapchain", h)>>
                    \o [i \in DOMAIN OldViews |-> Call("destroy_image_view", OldViews[i])]
                    \o [i \in 1 .. made |-> Call("create_image_view", first + i)]
        /\ outcome' = [op |-> "recreate_swapchain",
                       result |-> IF ~images_ok THEN "get_swapchain_images failed"
                                  ELSE IF k < n THEN "create_image_view failed"
                                  ELSE "ok"]
        /\ panics' = IF images_ok /\ k = n THEN panics ELSE panics + 1

\* base_vk.rs:383-385: the surface loader recreate_swapchain expects (first,
\* taken for granted)
SurfaceSupportAssumed == TRUE
SurfaceSupport == IsSome(surface_fn)

\* The body of recreate_swapchain for one call: its arguments and what the
\* driver answers to each query (drv.fail names the driver call that fails).
recreate_swapchain(present_mode, window_size, usage_flags, surface_format, drv) ==
    LET info0 == SeedCreateInfo
        info1 == [info0 EXCEPT !.present_mode = ChosenPresentMode(drv.modes, present_mode)]
        caps == drv.caps
        info2 == [info1 EXCEPT !.min_image_count = MinImageCount(caps),
                               !.image_extent = ImageExtent(caps, window_size)]
        info3 == [info2 EXCEPT !.image_usage = usage_flags]
        chosen_format == ChosenFormat(drv.formats, surface_format)
        info4 == [info3 EXCEPT !.image_format = chosen_format.format,
                               !.image_color_space = chosen_format.color_space]
    IN  IF ~SurfaceSupport
        THEN PanickedEarly(info0, "BaseVk has not been created with surface support")
        ELSE IF drv.fail = "present_modes"
        THEN PanickedEarly(info0, "get_physical_device_surface_present_modes failed")
        ELSE IF drv.fail = "capabilities"
        THEN PanickedEarly(info1, "get_physical_device_surface_capabilities failed")
        ELSE IF debug_assertions /\ caps.min_image_count + 1 >= U32
        THEN PanickedEarly(info1, "attempt to add with overflow")
        ELSE IF ~UsageSupported(caps, usage_flags)
        THEN PanickedEarly(info2, "Unsupported image usage flags")
        ELSE IF drv.fail = "formats"
        THEN PanickedEarly(info3, "get_physical_device_surface_formats failed")
        ELSE IF drv.formats = <<>>
        THEN PanickedEarly(info3, "called Option::unwrap() on a None value")
        ELSE IF ~IsSome(swapchain_fn)
        THEN PanickedEarly(info4, "called Option::unwrap() on a None value")
        ELSE IF drv.fail = "create_swapchain"
        THEN PanickedEarly(info4, "Could not create swapchain")
        ELSE AfterCreate(info4, drv.n_images, drv.fail # "swapchain_images",
                         IF drv.fail = "image_view" THEN drv.views_made ELSE drv.n_images)

----------------------------------------------------------------------------
(* allocate_buffer and destroy_buffer (base_vk.rs:501-530) *)

\* The device memory the allocator can hand out, in units of buffer size
HeapSize == MaxBuffers
BufferSizes == {1, 2}
MemoryLocations == {"GpuOnly", "CpuToGpu"}

\* gpu_allocator's accounting: what is handed out and what is left
Allocated == Concat([a \in DOMAIN allocations |->
                        IF allocations[a].live THEN <<allocations[a].size>> ELSE <<>>])
RECURSIVE Sum(_)
Sum(s) == IF s = <<>> THEN 0 ELSE Head(s) + Sum(Tail(s))
FreeSpace == HeapSize - Sum(Allocated)

\* base_vk.rs:506-524. fail names the call that returns an error; allocate
\* also fails when the heap cannot hold the requirements.
allocate_buffer(size, memory_location, fail) ==
    LET buffer == Len(vk_buffers) + 1
        allocation == Len(allocations) + 1
        requirements == size
        unbound == [size |-> size, memory |-> NullHandle, live |-> TRUE]
    IN  IF fail = "create_buffer"
        THEN /\ outcome' = [op |-> "allocate_buffer", result |-> "create_buffer failed"]
             /\ UNCHANGED <<calls, resources>>
        ELSE IF fail = "allocate" \/ requirements > FreeSpace
        THEN /\ outcome' = [op |-> "allocate_buffer", result |-> "Allocator::allocate failed"]
             /\ vk_buffers' = Append(vk_buffers, unbound)
             /\ calls' = Append(calls, Call("create_buffer", buffer))
             /\ UNCHANGED <<allocations, held_buffers>>
        ELSE /\ vk_buffers' = Append(vk_buffers,
                                     IF fail = "bind_buffer_memory"
                                     THEN unbound
                                     ELSE [unbound EXCEPT !.memory = allocation])
             /\ allocations' = Append(allocations,
                                      [size |-> requirements, location |-> memory_location,
                                       linear |-> TRUE, live |-> TRUE])
             /\ calls' = calls \o <<Call("create_buffer", buffer),
                                    Call("Allocator::allocate", allocation)>>
             /\ IF fail = "bind_buffer_memory"
                THEN /\ outcome' = [op |-> "allocate_buffer",
                                    result |-> "bind_buffer_memory failed"]
                     /\ UNCHANGED held_buffers
                ELSE /\ outcome' = [op |-> "allocate_buffer", result |-> "ok"]
                     /\ held_buffers' = held_buffers
                                        \cup {[buffer |-> buffer, allocation |-> allocation]}

AllocateBuffer ==
    /\ pc = "alive"
    /\ Len(vk_buffers) < MaxBuffers
    /\ \E size \in BufferSizes, memory_location \in MemoryLocations,
          fail \in {"none", "create_buffer", "allocate", "bind_buffer_memory"} :
          allocate_buffer(size, memory_location, fail)
    /\ UNCHANGED <<inputs, fields, vk_swapchains, vk_image_views, pc, stdout,
                   recreate_calls, panics, last_call, helper, commands, chain_log>>

\* base_vk.rs:528-529: the calls of destroy_buffer, in order (first, the buffer
\* destroyed before its memory is given back; second, the memory never given
\* back)
DestroyBufferCallsBufferFirst(buffer) ==
    <<Call("destroy_buffer", buffer.buffer), Call("Allocator::free", buffer.allocation)>>
DestroyBufferCallsNoFree(buffer) ==
    <<Call("destroy_buffer", buffer.buffer)>>
DestroyBufferCalls(buffer) ==
    <<Call("Allocator::free", buffer.allocation), Call("destroy_buffer", buffer.buffer)>>

destroy_buffer(buffer) ==
    LET issued == DestroyBufferCalls(buffer)
    IN  /\ calls' = calls \o issued
        /\ allocations' =
               [a \in DOMAIN allocations |->
                   IF Call("Allocator::free", a) \in Range(issued)
                   THEN [allocations[a] EXCEPT !.live = FALSE]
                   ELSE allocations[a]]
        /\ vk_buffers' =
               [b \in DOMAIN vk_buffers |->
                   IF Call("destroy_buffer", b) \in Range(issued)
                   THEN [vk_buffers[b] EXCEPT !.live = FALSE]
                   ELSE vk_buffers[b]]
        /\ outcome' = [op |-> "destroy_buffer", result |-> "ok"]

\* The caller hands back a pair it owns
DestroyBuffer ==
    /\ pc = "alive"
    /\ \E buffer \in held_buffers :
          /\ destroy_buffer(buffer)
          /\ held_buffers' = held_buffers \ {buffer}
    /\ UNCHANGED <<inputs, fields, vk_swapchains, vk_image_views, pc, stdout,
                   recreate_calls, panics, last_call, helper, commands, chain_log>>

----------------------------------------------------------------------------
(* create_cmd_pool_and_buffers and destroy_cmd_pool_and_buffers
   (base_vk.rs:532-564) *)

\* base_vk.rs:539-541: the family the pool is created on
PoolFamily == queue_family_index

\* base_vk.rs:532-557. fail names the driver call that returns an error.
create_cmd_pool_and_buffers(pool_flags, cmdb_level, cmdb_count, fail) ==
    LET pool == Len(vk_command_pools) + 1
        first == Len(vk_command_buffers)
        buffers == [i \in 1 .. cmdb_count |-> first + i]
        created == [flags |-> pool_flags, queue_family_index |-> PoolFamily, live |-> TRUE]
    IN  /\ last_commands' = Some([pool_flags |-> pool_flags, cmdb_level |-> cmdb_level,
                                  cmdb_count |-> cmdb_count])
        /\ IF fail = "create_command_pool"
           THEN /\ outcome' = [op |-> "create_cmd_pool_and_buffers",
                               result |-> "create_command_pool failed"]
                /\ UNCHANGED <<calls, vk_command_pools, vk_command_buffers, held_commands>>
           ELSE IF fail = "allocate_command_buffers"
           THEN /\ outcome' = [op |-> "create_cmd_pool_and_buffers",
                               result |-> "allocate_command_buffers failed"]
                /\ vk_command_pools' = Append(vk_command_pools, created)
                /\ calls' = Append(calls, Call("create_command_pool", pool))
                /\ UNCHANGED <<vk_command_buffers, held_commands>>
           ELSE /\ outcome' = [op |-> "create_cmd_pool_and_buffers", result |-> "ok"]
                /\ vk_command_pools' = Append(vk_command_pools, created)
                /\ vk_command_buffers' =
                       vk_command_buffers
                       \o [i \in 1 .. cmdb_count |->
                              [pool |-> pool, level |-> cmdb_level, live |-> TRUE]]
                /\ calls' = calls \o <<Call("create_command_pool", pool),
                                       Call("allocate_command_buffers", pool)>>
                /\ held_commands' = held_commands \cup {[pool |-> pool, buffers |-> buffers]}

CreateCmdPoolAndBuffers ==
    /\ pc = "alive"
    /\ Len(vk_command_pools) < MaxCmdPools
    /\ \E pool_flags \in {{}, {"RESET_COMMAND_BUFFER"}},
          cmdb_level \in {"PRIMARY", "SECONDARY"},
          cmdb_count \in 1 .. MaxCmdBuffers,
          fail \in {"none", "create_command_pool", "allocate_command_buffers"} :
          create_cmd_pool_and_buffers(pool_flags, cmdb_level, cmdb_count, fail)
    /\ UNCHANGED <<inputs, fields, vk_swapchains, vk_image_views, pc, stdout,
                   recreate_calls, panics, last_call, resources, helper, chain_log>>

\* base_vk.rs:561-562: the calls of destroy_cmd_pool_and_buffers, in order
\* (first, the pool destroyed before its buffers are freed)
DestroyCmdCallsPoolFirst(cmri) ==
    <<Call("destroy_command_pool", cmri.pool), Call("free_command_buffers", cmri.pool)>>
DestroyCmdCalls(cmri) ==
    <<Call("free_command_buffers", cmri.pool), Call("destroy_command_pool", cmri.pool)>>

\* base_vk.rs:559-564. Destroying a pool frees the buffers allocated from it.
destroy_cmd_pool_and_buffers(cmri) ==
    LET issued == DestroyCmdCalls(cmri)
    IN  /\ calls' = calls \o issued
        /\ vk_command_buffers' =
               [b \in DOMAIN vk_command_buffers |->
                   IF \/ (Call("free_command_buffers", cmri.pool) \in Range(issued)
                           /\ b \in Range(cmri.buffers))
                      \/ Call("destroy_command_pool", vk_command_buffers[b].pool) \in Range(issued)
                   THEN [vk_command_buffers[b] EXCEPT !.live = FALSE]
                   ELSE vk_command_buffers[b]]
        /\ vk_command_pools' =
               [q \in DOMAIN vk_command_pools |->
                   IF Call("destroy_command_pool", q) \in Range(issued)
                   THEN [vk_command_pools[q] EXCEPT !.live = FALSE]
                   ELSE vk_command_pools[q]]
        /\ outcome' = [op |-> "destroy_cmd_pool_and_buffers", result |-> "ok"]

\* The caller hands back a CommandRecordInfo it owns
DestroyCmdPoolAndBuffers ==
    /\ pc = "alive"
    /\ \E cmri \in held_commands :
          /\ destroy_cmd_pool_and_buffers(cmri)
          /\ held_commands' = held_commands \ {cmri}
    /\ UNCHANGED <<inputs, fields, vk_swapchains, vk_image_views, pc, stdout,
                   recreate_calls, panics, last_call, resources, helper, last_commands,
                   chain_log>>

----------------------------------------------------------------------------
(* Drop for BaseVk (base_vk.rs:617-640) *)

\* The calls of drop, in order (first, with the device destroyed too early)
DropCallsDeviceFirst ==
    <<Call("Allocator::drop", 1)>>
    \o <<Call("destroy_device", 1)>>
    \o [i \in DOMAIN HeldViews |-> Call("destroy_image_view", HeldViews[i])]
    \o (IF IsSome(swapchain_fn) THEN <<Call("destroy_swapchain", swapchain)>> ELSE <<>>)
    \o (IF IsSome(surface_fn) THEN <<Call("destroy_surface", surface)>> ELSE <<>>)
    \o (IF debug_assertions THEN <<Call("destroy_debug_utils_messenger", 1)>> ELSE <<>>)
    \o <<Call("destroy_instance", 1)>>
\* (second, the surface and the swapchain destroyed whether or not their
\* loaders were made)
DropCallsUnguarded ==
    <<Call("Allocator::drop", 1)>>
    \o [i \in DOMAIN HeldViews |-> Call("destroy_image_view", HeldViews[i])]
    \o <<Call("destroy_swapchain", swapchain)>>
    \o <<Call("destroy_device", 1)>>
    \o <<Call("destroy_surface", surface)>>
    \o (IF debug_assertions THEN <<Call("destroy_debug_utils_messenger", 1)>> ELSE <<>>)
    \o <<Call("destroy_instance", 1)>>
DropCalls ==
    <<Call("Allocator::drop", 1)>>
    \o [i \in DOMAIN HeldViews |-> Call("destroy_image_view", HeldViews[i])]
    \o (IF IsSome(swapchain_fn) THEN <<Call("destroy_swapchain", swapchain)>> ELSE <<>>)
    \o <<Call("destroy_device", 1)>>
    \o (IF IsSome(surface_fn) THEN <<Call("destroy_surface", surface)>> ELSE <<>>)
    \o (IF debug_assertions THEN <<Call("destroy_debug_utils_messenger", 1)>> ELSE <<>>)
    \o <<Call("destroy_instance", 1)>>

Drop ==
    /\ pc = "alive"
    /\ pc' = "dropped"
    /\ outcome' = [op |-> "drop", result |-> "ok"]
    /\ calls' = calls \o DropCalls
    /\ vk_image_views' = DestroyViews(vk_image_views, HeldViews)
    /\ vk_swapchains' =
           [h \in DOMAIN vk_swapchains |->
               IF IsSome(swapchain_fn) /\ h = swapchain
               THEN [vk_swapchains[h] EXCEPT !.live = FALSE]
               ELSE vk_swapchains[h]]
    /\ UNCHANGED <<inputs, fields, stdout, recreate_calls, panics, last_call, resources, helper,
                   commands, chain_log>>

----------------------------------------------------------------------------
(* The machines and the requests the model is run on *)

Family(flags, count, present) ==
    [queue_flags |-> flags, queue_count |-> count, present |-> present]
Device(extensions, features, families) ==
    [extensions |-> extensions, features |-> features, families |-> families]

AllFeatures == {"robust_buffer_access", "geometry_shader", "multiview"}
AllExtensions == {"VK_KHR_swapchain", "VK_KHR_maintenance1"}
GraphicsCompute == {"GRAPHICS", "COMPUTE", "TRANSFER"}

\* A device that meets every request of the model, and devices that differ from
\* it in the extensions, the features or the queue families they report.
GoodDevice == Device(AllExtensions, AllFeatures, <<Family(GraphicsCompute, MaxQueues + 1, TRUE)>>)
DeviceProfiles ==
    {GoodDevice,
     Device({"VK_KHR_maintenance1"}, AllFeatures, GoodDevice.families),
     Device({"VK_KHR_swapchain"}, AllFeatures, GoodDevice.families),
     Device(AllExtensions, {"geometry_shader", "multiview"}, GoodDevice.families),
     Device(AllExtensions, {"robust_buffer_access", "geometry_shader"}, GoodDevice.families),
     Device(AllExtensions, AllFeatures,
            <<Family({"COMPUTE", "TRANSFER"}, MaxQueues + 1, TRUE),
              Family(GraphicsCompute, MaxQueues + 1, TRUE)>>),
     Device(AllExtensions, AllFeatures, <<Family(GraphicsCompute, 1, TRUE)>>),
     Device(AllExtensions, AllFeatures,
            <<Family(GraphicsCompute, MaxQueues + 1, FALSE),
              Family({"GRAPHICS"}, MaxQueues, TRUE)>>)}

SeqsUpTo(S, n) == UNION {[1 .. k -> S] : k \in 0 .. n}

FeatureRequests ==
    {<<Node(RootType, {})>>,
     <<Node(RootType, {"robust_buffer_access"})>>,
     <<Node(RootType, {"geometry_shader"}), Node("PHYSICAL_DEVICE_MULTIVIEW_FEATURES", {"multiview"})>>,
     <<Node(RootType, {"robust_buffer_access"}), Node("PHYSICAL_DEVICE_MULTIVIEW_FEATURES", {"multiview"})>>}

QueueRequests == {q \in SeqsUpTo({{"GRAPHICS"}, {"COMPUTE"}}, MaxQueues) : q # <<>>}

\* The helper has not been called on its own
NotCompared ==
    /\ available_device_features = <<>>
    /\ compare_result = None

BeforeNew ==
    /\ surface = NullHandle
    /\ surface_fn = None
    /\ physical_device = 0
    /\ queue_family_index = 0
    /\ queues = <<>>
    /\ swapchain_fn = None
    /\ swapchain_create_info = None
    /\ swapchain = NullHandle
    /\ swapchain_image_views = None
    /\ vk_swapchains = <<>>
    /\ vk_image_views = <<>>
    /\ calls = <<>>
    /\ pc = "start"
    /\ outcome = [op |-> "none", result |-> "ok"]
    /\ stdout = <<>>
    /\ recreate_calls = 0
    /\ panics = 0
    /\ last_call = None
    /\ vk_buffers = <<>>
    /\ allocations = <<>>
    /\ held_buffers = {}
    /\ vk_command_pools = <<>>
    /\ vk_command_buffers = <<>>
    /\ held_commands = {}
    /\ last_commands = None
    /\ chain_log = <<>>

\* Construction on every machine and request of the model
InitNew ==
    /\ window_handle \in {"None", "Wayland", "AppKit"}
    /\ device_extensions \in {{}, {"VK_KHR_maintenance1"}}
    /\ desired_physical_device_features2 \in FeatureRequests
    /\ desired_queues \in QueueRequests
    /\ debug_assertions = TRUE
    /\ physical_devices \in SeqsUpTo(DeviceProfiles, MaxDevices)
    /\ BeforeNew
    /\ NotCompared

NextNew == New \/ Drop

SpecNew == InitNew /\ [][NextNew]_vars

----------------------------------------------------------------------------
(* The life of one Context: new, recreate_swapchain any number of times, drop *)

Init ==
    /\ window_handle \in {"None", "Xlib", "AppKit"}
    /\ device_extensions = {}
    /\ desired_physical_device_features2 = <<Node(RootType, {})>>
    /\ desired_queues = <<{"GRAPHICS"}>>
    /\ debug_assertions \in BOOLEAN
    /\ physical_devices = <<GoodDevice>>
    /\ BeforeNew
    /\ NotCompared

Extent(w, h) == [width |-> w, height |-> h]
SurfaceFormat(f, c) == [format |-> f, color_space |-> c]

Caps(min_count, max_count, current, usage) ==
    [min_image_count |-> min_count,
     max_image_count |-> max_count,
     current_extent |-> current,
     min_image_extent |-> Extent(1, 1),
     max_image_extent |-> Extent(4096, 4096),
     supported_usage_flags |-> usage]

FailPoints ==
    {"none", "present_modes", "capabilities", "formats", "create_swapchain",
     "swapchain_images", "image_view"}

\* What the driver may answer during one call: drv.fail is the driver call that
\* returns an error; the swapchain gets its minImageCount images or more.
DriverAnswers(modes, caps, formats) ==
    {drv \in [fail : FailPoints, modes : modes, caps : caps, formats : formats,
              n_images : 1 .. 2 + MaxExtraImages, views_made : 0 .. 1 + MaxExtraImages] :
        /\ drv.n_images >= MinImageCount(drv.caps)
        /\ drv.n_images <= MinImageCount(drv.caps) + MaxExtraImages
        /\ IF drv.fail = "image_view" THEN drv.views_made < drv.n_images
                                      ELSE drv.views_made = 0}

\* One call of recreate_swapchain, its arguments drawn from Args and the
\* driver's answers from Answers
RecreateWith(Args, Answers) ==
    /\ pc = "alive"
    /\ recreate_calls' = recreate_calls + 1
    /\ \E args \in Args, drv \in Answers :
          /\ recreate_swapchain(args.present_mode, args.window_size, args.usage_flags,
                                args.surface_format, drv)
          /\ last_call' = Some([args |-> args, drv |-> drv])
    /\ UNCHANGED <<inputs, surface, surface_fn, physical_device, queue_family_index,
                   queues, swapchain_fn, pc, stdout, resources, helper, commands,
                   chain_log>>

RecreateSwapchain ==
    /\ recreate_calls < MaxRecreate
    /\ RecreateWith(
           [present_mode : {"MAILBOX"},
            window_size : {Extent(800, 600)},
            usage_flags : {{"COLOR_ATTACHMENT"}, {"COLOR_ATTACHMENT", "STORAGE"}},
            surface_format : {SurfaceFormat("B8G8R8A8_SRGB", "SRGB_NONLINEAR")}],
           DriverAnswers({<<"FIFO", "MAILBOX">>},
                         {Caps(1, 0, Extent(ExtentSentinel, ExtentSentinel), {"COLOR_ATTACHMENT"}),
                          Caps(1, 1, Extent(640, 480), {"COLOR_ATTACHMENT"})},
                         {<<SurfaceFormat("B8G8R8A8_SRGB", "SRGB_NONLINEAR")>>}))

Next == New \/ RecreateSwapchain \/ Drop

Spec == Init /\ [][Next]_vars

----------------------------------------------------------------------------
(* One recreate_swapchain call on a windowed Context, over a wide range of
   arguments and driver answers *)

InitParams ==
    /\ window_handle = "Xlib"
    /\ device_extensions = {}
    /\ desired_physical_device_features2 = <<Node(RootType, {})>>
    /\ desired_queues = <<{"GRAPHICS"}>>
    /\ debug_assertions \in BOOLEAN
    /\ physical_devices = <<GoodDevice>>
    /\ BeforeNew
    /\ NotCompared

Requested == SurfaceFormat("B8G8R8A8_SRGB", "SRGB_NONLINEAR")

WideArgs ==
    [present_mode : {"MAILBOX", "FIFO", "IMMEDIATE"},
     window_size : {Extent(0, 0), Extent(800, 600), Extent(5000, 20)},
     usage_flags : {{"COLOR_ATTACHMENT"}, {"COLOR_ATTACHMENT", "STORAGE"}},
     surface_format : {Requested, SurfaceFormat("R16G16B16A16_SFLOAT", "EXTENDED_SRGB_LINEAR")}]

WideModes == {<<"FIFO", "IMMEDIATE">>, <<"FIFO", "MAILBOX">>, <<"IMMEDIATE", "MAILBOX", "FIFO">>}

\* <<minImageCount, maxImageCount>> as the surface may report them; the all-ones
\* word is the largest value the field can hold
WideCounts == {<<1, 0>>, <<2, 2>>, <<2, 3>>, <<U32 - 1, 0>>, <<U32 - 1, U32 - 1>>}

WideCurrentExtents ==
    {Extent(ExtentSentinel, ExtentSentinel), Extent(640, 480), Extent(ExtentSentinel, 480)}

WideCaps ==
    {[Caps(c[1], c[2], current, {"COLOR_ATTACHMENT"}) EXCEPT !.min_image_extent = Extent(16, 32)] :
        c \in WideCounts, current \in WideCurrentExtents}

WideFormats ==
    {<<>>,
     <<Requested>>,
     <<SurfaceFormat("R8G8B8A8_UNORM", "SRGB_NONLINEAR"), Requested>>,
     <<SurfaceFormat("R8G8B8A8_UNORM", "SRGB_NONLINEAR"),
       SurfaceFormat("B8G8R8A8_SRGB", "DISPLAY_P3_NONLINEAR")>>}

\* The swapchain gets as many images as its create-info asks for (one when it
\* asks for none)
WideAnswers ==
    {drv \in [fail : {"none", "create_swapchain"}, modes : WideModes, caps : WideCaps,
              formats : WideFormats, n_images : 1 .. 3, views_made : {0}] :
        drv.n_images = (IF MinImageCount(drv.caps) = 0 THEN 1 ELSE MinImageCount(drv.caps))}

RecreateSwapchainOnce ==
    /\ recreate_calls = 0
    /\ RecreateWith(WideArgs, WideAnswers)

NextParams == New \/ RecreateSwapchainOnce \/ Drop
SpecParams == InitParams /\ [][NextParams]_vars

----------------------------------------------------------------------------
(* Buffers allocated and destroyed on a Context without a window *)

InitBuffers ==
    /\ window_handle = "None"
    /\ device_extensions = {}
    /\ desired_physical_device_features2 = <<Node(RootType, {})>>
    /\ desired_queues = <<{"GRAPHICS"}>>
    /\ debug_assertions = TRUE
    /\ physical_devices = <<GoodDevice>>
    /\ BeforeNew
    /\ NotCompared

NextBuffers == New \/ AllocateBuffer \/ DestroyBuffer \/ Drop
SpecBuffers == InitBuffers /\ [][NextBuffers]_vars

----------------------------------------------------------------------------
(* Command pools created and destroyed on a Context without a window; the
   second machine's device serves the request from its second queue family *)

InitCommands ==
    /\ window_handle = "None"
    /\ device_extensions = {}
    /\ desired_physical_device_features2 = <<Node(RootType, {})>>
    /\ desired_queues = <<{"GRAPHICS"}>>
    /\ debug_assertions = TRUE
    /\ physical_devices \in
           {<<GoodDevice>>,
            <<Device(AllExtensions, AllFeatures,
                     <<Family({"COMPUTE", "TRANSFER"}, MaxQueues + 1, TRUE),
                       Family(GraphicsCompute, MaxQueues + 1, TRUE)>>)>>}
    /\ BeforeNew
    /\ NotCompared

NextCommands == New \/ CreateCmdPoolAndBuffers \/ DestroyCmdPoolAndBuffers \/ Drop
SpecCommands == InitCommands /\ [][NextCommands]_vars

----------------------------------------------------------------------------
(* The feature-compare helper applied to a requested and an available chain *)

\* Extension nodes of a chain: none, one of either type, or both in either
\* order, each with its feature set or clear
ChainTails ==
    LET multiview == {Node("PHYSICAL_DEVICE_MULTIVIEW_FEATURES", set) :
                         set \in SUBSET {"multiview"}}
        storage == {Node("PHYSICAL_DEVICE_16BIT_STORAGE_FEATURES", set) :
                       set \in SUBSET {"storage_buffer16_bit_access"}}
    IN  {<<>>}
        \cup {<<n>> : n \in multiview \cup storage}
        \cup {<<m, n>> : m \in multiview, n \in storage}
        \cup {<<n, m>> : m \in multiview, n \in storage}

Chains ==
    {<<Node(RootType, set)>> \o tail :
        set \in SUBSET {"robust_buffer_access", "geometry_shader"}, tail \in ChainTails}

InitCompare ==
    /\ window_handle = "None"
    /\ device_extensions = {}
    /\ desired_physical_device_features2 \in Chains
    /\ desired_queues = <<{"GRAPHICS"}>>
    /\ debug_assertions = TRUE
    /\ physical_devices = <<GoodDevice>>
    /\ BeforeNew
    /\ available_device_features \in Chains
    /\ compare_result = None

\* base_vk.rs:234-237: the call of the helper
Compare ==
    /\ pc = "start"
    /\ compare_result = None
    /\ compare_result' = Some(compare_vk_physical_device_features2(
                                  available_device_features,
                                  desired_physical_device_features2))
    /\ UNCHANGED <<inputs, fields, driver, control, resources, available_device_features,
                   commands, chain_log>>

NextCompare == Compare
SpecCompare == InitCompare /\ [][NextCompare]_vars

----------------------------------------------------------------------------
(* Properties *)

Windowed == window_handle \in WindowTags
Positions(op) == {i \in DOMAIN calls : calls[i].op = op}
CallsOf(op, h) == {i \in DOMAIN calls : calls[i] = Call(op, h)}
LiveViews == {v \in DOMAIN vk_image_views : vk_image_views[v].live}
LiveSwapchains == {h \in DOMAIN vk_swapchains : vk_swapchains[h].live}
Before(a, b) == \A i \in Positions(a) : \A j \in Positions(b) : i < j

\* C1: once the Context is dropped, every image view release precedes the
\* swapchain release, which precedes the device's, then the surface's, then the
\* debug messenger's (debug builds), then the instance's; the allocator is
\* released before the device is destroyed; and each of these releases the
\* Context owes has been issued, with or without a window and whatever
\* recreate_swapchain calls were made.
C1_DropOrder ==
    pc = "dropped" =>
        /\ Before("destroy_image_view", "destroy_swapchain")
        /\ Before("destroy_image_view", "destroy_device")
        /\ Before("destroy_swapchain", "destroy_device")
        /\ Before("destroy_device", "destroy_surface")
        /\ Before("destroy_device", "destroy_debug_utils_messenger")
        /\ Before("destroy_device", "destroy_instance")
        /\ Before("destroy_surface", "destroy_debug_utils_messenger")
        /\ Before("destroy_surface", "destroy_instance")
        /\ Before("destroy_debug_utils_messenger", "destroy_instance")
        /\ Before("Allocator::drop", "destroy_device")
        /\ Cardinality(Positions("Allocator::drop")) = 1
        /\ Cardinality(Positions("destroy_device")) = 1
        /\ Cardinality(Positions("destroy_instance")) = 1
        /\ Cardinality(Positions("destroy_debug_utils_messenger")) = (IF debug_assertions THEN 1 ELSE 0)
        /\ Cardinality(Positions("destroy_surface")) = (IF Windowed THEN 1 ELSE 0)
        /\ Cardinality(Positions("destroy_swapchain")) = (IF Windowed THEN 1 ELSE 0)
        /\ \A v \in Range(HeldViews) : CallsOf("destroy_image_view", v) # {}
C1_Witness ==
    /\ pc = "dropped"
    /\ Windowed
    /\ debug_assertions
    /\ recreate_calls >= 2
    /\ Len(HeldViews) >= 2
    /\ swapchain # NullHandle

\* C2: at most one swapchain the Context created is still un-destroyed after
\* any sequence of successful recreate_swapchain calls, and none after drop.
C2_OneLiveSwapchain ==
    /\ (pc = "alive" /\ panics = 0) => Cardinality(LiveSwapchains) <= 1
    /\ (pc = "dropped" /\ panics = 0) => LiveSwapchains = {}

\* C3: no image view leaks: while the Context lives the live image views are
\* exactly those of its sequence; every view of an earlier set was destroyed
\* before any view of a later set was created; no view is destroyed twice; and
\* after drop every image view ever created has been destroyed exactly once.
C3_NoViewLeak ==
    /\ pc = "alive" => LiveViews = Range(HeldViews)
    /\ \A v \in DOMAIN vk_image_views :
           /\ Cardinality(CallsOf("destroy_image_view", v)) =
                  (IF vk_image_views[v].live THEN 0 ELSE 1)
           /\ \A w \in DOMAIN vk_image_views :
                  vk_image_views[v].image.swapchain < vk_image_views[w].image.swapchain =>
                      \A i \in CallsOf("destroy_image_view", v) :
                          \A j \in CallsOf("create_image_view", w) : i < j
    /\ \A w \in DOMAIN vk_image_views :
           \A v \in Range(HeldViews) :
               vk_image_views[w].image.swapchain < vk_image_views[v].image.swapchain =>
                   ~vk_image_views[w].live
    /\ pc = "dropped" =>
           /\ LiveViews = {}
           /\ \A v \in DOMAIN vk_image_views : Cardinality(CallsOf("destroy_image_view", v)) = 1
C3_Witness ==
    /\ pc = "dropped"
    /\ recreate_calls >= 2
    /\ panics = 0
    /\ Len(vk_image_views) >= 4
    /\ Len(vk_swapchains) >= 2

\* C4: a recreate_swapchain call that returns leaves one image view per image
\* of the new swapchain, view i over image i in the driver's order, and a
\* create-info whose oldSwapchain is the handle that was live right before the
\* call (null on the first call).
C4_Step ==
    (recreate_calls' = recreate_calls + 1 /\ outcome'.result = "ok") =>
        /\ IsSome(swapchain_create_info')
        /\ Unwrap(swapchain_create_info').old_swapchain = swapchain
        /\ (recreate_calls = 0 => Unwrap(swapchain_create_info').old_swapchain = NullHandle)
        /\ swapchain' = Len(vk_swapchains')
        /\ IsSome(swapchain_image_views')
        /\ Len(Unwrap(swapchain_image_views')) = vk_swapchains'[swapchain'].images
        /\ \A i \in DOMAIN Unwrap(swapchain_image_views') :
               /\ vk_image_views'[Unwrap(swapchain_image_views')[i]].image
                      = [swapchain |-> swapchain', index |-> i - 1]
               /\ vk_image_views'[Unwrap(swapchain_image_views')[i]].live
C4_ViewsAndOldSwapchain == [][C4_Step]_vars
C4_Witness ==
    /\ pc = "alive"
    /\ outcome = [op |-> "recreate_swapchain", result |-> "ok"]
    /\ recreate_calls >= 2
    /\ Unwrap(swapchain_create_info).old_swapchain # NullHandle
    /\ Len(HeldViews) >= 2

\* C5: whenever the Context holds a create-info, its swapchain handle is
\* non-null and names a live swapchain created with exactly those parameters,
\* also after a recreate_swapchain call that panicked.  Stated on a Context
\* with a surface, where the precondition of recreate_swapchain holds.
C5_CreateInfoDescribesSwapchain ==
    (pc = "alive" /\ Windowed /\ IsSome(swapchain_create_info)) =>
        /\ swapchain # NullHandle
        /\ vk_swapchains[swapchain].live
        /\ vk_swapchains[swapchain].create_info = Unwrap(swapchain_create_info)

\* C6: while the Context lives, a surface implies a swapchain loader, and no
\* surface implies a null swapchain handle and no image-view sequence.
C6_SurfaceInvariant ==
    pc = "alive" =>
        /\ surface # NullHandle => IsSome(swapchain_fn)
        /\ surface = NullHandle => (swapchain = NullHandle /\ swapchain_image_views = None)
C6_Witness ==
    /\ pc = "alive"
    /\ surface = NullHandle
    /\ recreate_calls >= 1
    /\ outcome.op = "recreate_swapchain"

\* C7: right after construction there is one queue per requested queue, queue i
\* being queue index i of the selected family, and with a window handle the
\* surface and both loaders are present while the swapchain handle is null and
\* the create-info and the image views are absent.
C7_AfterNew ==
    (pc = "alive" /\ outcome.op = "new") =>
        /\ Len(queues) = Len(desired_queues)
        /\ \A i \in DOMAIN queues : queues[i] = [family |-> queue_family_index, index |-> i - 1]
        /\ window_handle # "None" =>
               /\ surface # NullHandle
               /\ IsSome(surface_fn)
               /\ IsSome(swapchain_fn)
               /\ swapchain = NullHandle
               /\ swapchain_create_info = None
               /\ swapchain_image_views = None
C7_Witness ==
    /\ pc = "alive"
    /\ outcome.op = "new"
    /\ window_handle # "None"
    /\ Len(queues) >= 2
    /\ queue_family_index = 1

\* What the claims mean by a device that advertises the request, read off the
\* device's own answers.
RequestedBits ==
    UNION {{f \in DOMAIN desired_physical_device_features2[i].bits :
               desired_physical_device_features2[i].bits[f] # 0} :
           i \in DOMAIN desired_physical_device_features2}
AdvertisesFeatures(dev) == RequestedBits \subseteq dev.features
AdvertisesExtensions(dev) ==
    (device_extensions \cup (IF Windowed THEN {"VK_KHR_swapchain"} ELSE {})) \subseteq dev.extensions
FamilyServes(family) ==
    /\ \A q \in DOMAIN desired_queues : desired_queues[q] \subseteq family.queue_flags
    /\ family.queue_count >= Len(desired_queues)
    /\ Windowed => family.present
Qualifies(dev) ==
    /\ AdvertisesExtensions(dev)
    /\ AdvertisesFeatures(dev)
    /\ \E i \in DOMAIN dev.families : FamilyServes(dev.families[i])
Qualified == {d \in DOMAIN physical_devices : Qualifies(physical_devices[d])}
Constructed == pc \in {"alive", "dropped"}
Notice == "More than one device available selecting the first"

\* C8: the selected physical device reports, in its own feature query, every
\* feature bit set in the requested chain, robustBufferAccess included.
C8_SelectedAdvertisesFeatures ==
    Constructed => AdvertisesFeatures(physical_devices[physical_device])

\* C9: the selected device advertises every requested device extension (and
\* the swapchain extension with a surface), and the selected family's flags
\* contain every requested mask, it has at least as many queues as requested
\* and, with a surface, it supports presentation.
C9_SelectedExtensionsAndFamily ==
    Constructed =>
        /\ AdvertisesExtensions(physical_devices[physical_device])
        /\ queue_family_index + 1 \in DOMAIN physical_devices[physical_device].families
        /\ FamilyServes(physical_devices[physical_device].families[queue_family_index + 1])
C9_Witness ==
    /\ pc = "alive"
    /\ Windowed
    /\ physical_device = 2
    /\ queue_family_index = 1
    /\ Len(desired_queues) >= 2
    /\ device_extensions # {}

\* C10: construction selects the first device, in enumeration order, among
\* those that satisfy the three predicates; the notice is printed exactly when
\* more than one qualifies; when none qualifies construction is fatal.
C10_FirstQualifiedSelected ==
    pc # "start" =>
        /\ Qualified = {} => pc = "fatal"
        /\ Constructed =>
               /\ physical_device \in Qualified
               /\ \A d \in Qualified : physical_device <= d
               /\ (Notice \in Range(stdout)) <=> (Cardinality(Qualified) > 1)

\* The last recreate_swapchain call: its arguments and the driver's answers
LastArgs == Unwrap(last_call).args
LastAnswers == Unwrap(last_call).drv
RecreateStep == recreate_calls' = recreate_calls + 1
RecreateReturned == outcome = [op |-> "recreate_swapchain", result |-> "ok"]

\* C11: recreate_swapchain is fatal when the requested usage flags are not a
\* subset of the surface's supported usage flags: no swapchain is created and
\* the Context's swapchain handle and image-view sequence stay as they were;
\* when they are a subset, a call that gets past the check has recorded them
\* unchanged in the create-info.
C11_Step ==
    RecreateStep =>
        LET call == Unwrap(last_call')
            requested == call.args.usage_flags
            supported == call.drv.caps.supported_usage_flags
        IN  /\ ~(requested \subseteq supported) =>
                   /\ panics' = panics + 1
                   /\ outcome'.result # "ok"
                   /\ vk_swapchains' = vk_swapchains
                   /\ swapchain' = swapchain
                   /\ swapchain_image_views' = swapchain_image_views
            /\ (requested \subseteq supported
                /\ outcome'.result \notin
                       {"BaseVk has not been created with surface support",
                        "get_physical_device_surface_present_modes failed",
                        "get_physical_device_surface_capabilities failed",
                        "attempt to add with overflow"}) =>
                   Unwrap(swapchain_create_info').image_usage = requested
C11_UnsupportedUsageFatal == [][C11_Step]_vars
C11_Witness ==
    /\ pc = "alive"
    /\ outcome = [op |-> "recreate_swapchain", result |-> "Unsupported image usage flags"]
    /\ recreate_calls = 2
    /\ swapchain # NullHandle
    /\ Len(HeldViews) >= 1
    /\ ~(LastArgs.usage_flags \subseteq LastAnswers.caps.supported_usage_flags)

\* The last call got the surface capabilities and went on to the image count
\* and extent
CapsQueried ==
    /\ outcome.op = "recreate_swapchain"
    /\ outcome.result \notin {"BaseVk has not been created with surface support",
                              "get_physical_device_surface_present_modes failed",
                              "get_physical_device_surface_capabilities failed",
                              "attempt to add with overflow"}

\* v is x brought into lo .. hi
Within(v, x, lo, hi) ==
    /\ lo <= v /\ v <= hi
    /\ (lo <= x /\ x <= hi) => v = x
    /\ x < lo => v = lo
    /\ x > hi => v = hi

\* C12: the create-info's extent is the requested size clamped componentwise
\* into [minImageExtent, maxImageExtent] when currentExtent is the sentinel in
\* both dimensions; otherwise it is currentExtent, whatever size was requested.
C12_Extent ==
    CapsQueried =>
        LET caps == LastAnswers.caps
            size == LastArgs.window_size
            extent == Unwrap(swapchain_create_info).image_extent
        IN  IF caps.current_extent = Extent(ExtentSentinel, ExtentSentinel)
            THEN /\ Within(extent.width, size.width,
                           caps.min_image_extent.width, caps.max_image_extent.width)
                 /\ Within(extent.height, size.height,
                           caps.min_image_extent.height, caps.max_image_extent.height)
            ELSE extent = caps.current_extent
C12_Witness ==
    /\ RecreateReturned
    /\ LastAnswers.caps.current_extent = Extent(ExtentSentinel, ExtentSentinel)
    /\ LastArgs.window_size = Extent(5000, 20)
    /\ Unwrap(swapchain_create_info).image_extent = Extent(4096, 32)

\* The image count as the claim computes it, in unbounded integers
CountOf(caps) ==
    IF caps.max_image_count # 0 /\ caps.max_image_count < caps.min_image_count + 1
    THEN caps.max_image_count
    ELSE caps.min_image_count + 1

CountAsClaimed ==
    LET caps == LastAnswers.caps
        count == Unwrap(swapchain_create_info).min_image_count
    IN  /\ count = CountOf(caps)
        /\ caps.max_image_count = 0 => count = caps.min_image_count + 1
        /\ (caps.max_image_count # 0 /\ caps.min_image_count <= caps.max_image_count) =>
               (caps.min_image_count <= count /\ count <= caps.max_image_count)

\* C13 as stated: minImageCount is caps.minImageCount + 1, reduced to
\* caps.maxImageCount when that is non-zero and smaller; exactly
\* caps.minImageCount + 1 when maxImageCount is 0, and within
\* [caps.minImageCount, caps.maxImageCount] when it is not.
C13_ImageCount == CapsQueried => CountAsClaimed

\* C13, amended: the same, for every caps.minImageCount below 0xFFFFFFFF; at
\* 0xFFFFFFFF the 32-bit addition overflows: the call panics where overflow
\* is checked and records a count of 0 where it is not.
C13_ImageCountNoOverflow ==
    /\ (CapsQueried /\ LastAnswers.caps.min_image_count < U32 - 1) => CountAsClaimed
    /\ (outcome.op = "recreate_swapchain" /\ LastAnswers.caps.min_image_count = U32 - 1) =>
           IF debug_assertions
           THEN outcome.result = "attempt to add with overflow"
           ELSE Unwrap(swapchain_create_info).min_image_count = 0
C13_Witness ==
    /\ RecreateReturned
    /\ LastAnswers.caps.min_image_count = 2
    /\ LastAnswers.caps.max_image_count = 2
    /\ Unwrap(swapchain_create_info).min_image_count = 2

\* The last call got the surface's present modes
ModesQueried ==
    /\ outcome.op = "recreate_swapchain"
    /\ outcome.result \notin {"BaseVk has not been created with surface support",
                              "get_physical_device_surface_present_modes failed"}

\* C14: the swapchain is created with the desired present mode if the surface
\* supports it and with FIFO otherwise.
C14_PresentMode ==
    /\ ModesQueried =>
           Unwrap(swapchain_create_info).present_mode =
               (IF LastArgs.present_mode \in Range(LastAnswers.modes)
                THEN LastArgs.present_mode
                ELSE "FIFO")
    /\ RecreateReturned =>
           vk_swapchains[swapchain].create_info.present_mode =
               (IF LastArgs.present_mode \in Range(LastAnswers.modes)
                THEN LastArgs.present_mode
                ELSE "FIFO")
C14_Witness ==
    /\ RecreateReturned
    /\ LastArgs.present_mode = "MAILBOX"
    /\ LastAnswers.modes = <<"FIFO", "IMMEDIATE">>
    /\ vk_swapchains[swapchain].create_info.present_mode = "FIFO"

\* The last call chose the surface format and went on to create_swapchain
FormatChosen ==
    /\ outcome.op = "recreate_swapchain"
    /\ outcome.result \in {"ok", "Could not create swapchain",
                           "get_swapchain_images failed", "create_image_view failed"}

\* The pair the claim names for the last call
PairAsClaimed ==
    IF \E i \in DOMAIN LastAnswers.formats :
           /\ LastAnswers.formats[i].format = LastArgs.surface_format.format
           /\ LastAnswers.formats[i].color_space = LastArgs.surface_format.color_space
    THEN LastArgs.surface_format
    ELSE Head(LastAnswers.formats)

\* C15: the swapchain uses the requested (format, color-space) pair if a
\* supported format equals it in both fields and the first supported format
\* otherwise; both fields are recorded in the create-info, and the image views
\* are created with that same format.
C15_Format ==
    /\ FormatChosen =>
           /\ Unwrap(swapchain_create_info).image_format = PairAsClaimed.format
           /\ Unwrap(swapchain_create_info).image_color_space = PairAsClaimed.color_space
    /\ RecreateReturned =>
           /\ vk_swapchains[swapchain].create_info.image_format = PairAsClaimed.format
           /\ vk_swapchains[swapchain].create_info.image_color_space = PairAsClaimed.color_space
           /\ \A v \in Range(HeldViews) : vk_image_views[v].format = PairAsClaimed.format
C15_Witness ==
    /\ RecreateReturned
    /\ LastArgs.surface_format = Requested
    /\ Len(LastAnswers.formats) = 2
    /\ Requested \notin Range(LastAnswers.formats)
    /\ Len(HeldViews) >= 2
    /\ \A v \in Range(HeldViews) : vk_image_views[v].format = "R8G8B8A8_UNORM"

\* A create-info with its old-swapchain handle left out of the comparison
SansOldSwapchain(info) == [info EXCEPT !.old_swapchain = NullHandle]

\* C16: two recreate_swapchain calls in a row with identical parameters and
\* unchanged surface capabilities, present modes and formats produce
\* create-infos identical in every field other than the old-swapchain handle.
C16_Step ==
    (/\ RecreateStep
     /\ FormatChosen
     /\ outcome'.result \in {"ok", "Could not create swapchain",
                             "get_swapchain_images failed", "create_image_view failed"}
     /\ Unwrap(last_call').args = LastArgs
     /\ Unwrap(last_call').drv.modes = LastAnswers.modes
     /\ Unwrap(last_call').drv.caps = LastAnswers.caps
     /\ Unwrap(last_call').drv.formats = LastAnswers.formats) =>
        SansOldSwapchain(Unwrap(swapchain_create_info')) =
            SansOldSwapchain(Unwrap(swapchain_create_info))
C16_SameParametersSameCreateInfo == [][C16_Step]_vars
C16_Witness ==
    /\ RecreateReturned
    /\ recreate_calls = 2
    /\ panics = 0
    /\ Len(vk_swapchains) = 2
    /\ vk_swapchains[2].create_info.old_swapchain = 1
    /\ SansOldSwapchain(vk_swapchains[2].create_info) = SansOldSwapchain(vk_swapchains[1].create_info)
    /\ vk_swapchains[1].create_info.min_image_count = 2

\* Every allocate_buffer call that created a buffer returned it: none panicked
\* between create_buffer and its return
BufferCallsReturned == \A b \in DOMAIN vk_buffers : vk_buffers[b].memory # NullHandle

\* The space of the pairs the caller still owns
RECURSIVE HeldSpace(_)
HeldSpace(pairs) ==
    IF pairs = {} THEN 0
    ELSE LET p == CHOOSE q \in pairs : TRUE
         IN  allocations[p.allocation].size + HeldSpace(pairs \ {p})

\* C17: allocate_buffer followed by destroy_buffer restores the allocator's
\* free space: over any sequence of returning calls the space in use is that of
\* the pairs not yet destroyed, so once each returned pair has been destroyed
\* the free space is what it was before the first call, and every buffer
\* created has been destroyed.
C17_FreeSpaceRestored ==
    BufferCallsReturned =>
        /\ FreeSpace = HeapSize - HeldSpace(held_buffers)
        /\ \A b \in DOMAIN vk_buffers :
               vk_buffers[b].live <=> (\E p \in held_buffers : p.buffer = b)
        /\ held_buffers = {} =>
               /\ FreeSpace = HeapSize
               /\ \A b \in DOMAIN vk_buffers : ~vk_buffers[b].live
               /\ \A a \in DOMAIN allocations : ~allocations[a].live
C17_Witness ==
    /\ pc = "alive"
    /\ outcome = [op |-> "destroy_buffer", result |-> "ok"]
    /\ BufferCallsReturned
    /\ Len(vk_buffers) = MaxBuffers
    /\ held_buffers = {}
    /\ FreeSpace = HeapSize
    /\ \E a \in DOMAIN allocations : allocations[a].size = 2

\* C20: for every pair, destroy_buffer returns the suballocation to the
\* allocator first and destroys the Vulkan buffer second.
C20_FreeBeforeDestroy ==
    /\ \A j \in Positions("destroy_buffer") :
           /\ j > 1
           /\ calls[j - 1] = Call("Allocator::free", vk_buffers[calls[j].h].memory)
    /\ \A b \in DOMAIN vk_buffers :
           ~vk_buffers[b].live =>
               /\ Cardinality(CallsOf("destroy_buffer", b)) = 1
               /\ Cardinality(CallsOf("Allocator::free", vk_buffers[b].memory)) = 1
               /\ \A i \in CallsOf("Allocator::free", vk_buffers[b].memory) :
                      \A j \in CallsOf("destroy_buffer", b) : i < j
C20_Witness ==
    /\ Cardinality(Positions("destroy_buffer")) >= 2
    /\ \E i \in CallsOf("destroy_buffer", 2) :
           \E j \in CallsOf("destroy_buffer", 1) : i < j
    /\ vk_buffers[1].memory # vk_buffers[2].memory

\* C18: on a Context constructed without a window, recreate_swapchain is fatal
\* (it stops at the missing surface support), creates no swapchain and no
\* image view, and leaves the swapchain handle null and the image-view
\* sequence absent.
C18_Step ==
    (RecreateStep /\ window_handle = "None") =>
        /\ panics' = panics + 1
        /\ outcome' = [op |-> "recreate_swapchain",
                       result |-> "BaseVk has not been created with surface support"]
        /\ calls' = calls
        /\ vk_swapchains' = <<>>
        /\ vk_image_views' = <<>>
        /\ swapchain' = NullHandle
        /\ swapchain_image_views' = None
C18_NoWindowFatal == [][C18_Step]_vars
C18_Witness ==
    /\ window_handle = "None"
    /\ pc = "alive"
    /\ outcome.op = "recreate_swapchain"
    /\ recreate_calls = 2
    /\ panics = 2
    /\ swapchain = NullHandle
    /\ swapchain_image_views = None
    /\ vk_swapchains = <<>>

\* The features set in a node, and the structure types of a chain
SetBits(node) == {f \in DOMAIN node.bits : node.bits[f] # 0}
TypesOf(chain) == {chain[i].s_type : i \in DOMAIN chain}
Reordered(chain) == {other \in Chains : Range(other) = Range(chain)}

\* C19: the feature-compare helper returns true if and only if every node of
\* the requested chain has, in the available chain, a node of the same
\* structure type with every requested feature set; the result does not depend
\* on the order of the nodes in either chain, and a requested node type missing
\* from the available chain gives false.
C19_Compare ==
    IsSome(compare_result) =>
        LET requested == desired_physical_device_features2
            available == available_device_features
        IN  /\ Unwrap(compare_result) <=>
                   \A node \in Range(requested) :
                       \E other \in Range(available) :
                           /\ other.s_type = node.s_type
                           /\ SetBits(node) \subseteq SetBits(other)
            /\ \A r \in Reordered(requested), a \in Reordered(available) :
                   compare_vk_physical_device_features2(a, r) = Unwrap(compare_result)
            /\ ~(TypesOf(requested) \subseteq TypesOf(available)) => ~Unwrap(compare_result)
C19_Witness ==
    /\ compare_result = Some(TRUE)
    /\ Len(desired_physical_device_features2) = 3
    /\ Len(available_device_features) = 3
    /\ desired_physical_device_features2[2].s_type = available_device_features[3].s_type
    /\ desired_physical_device_features2[3].s_type = available_device_features[2].s_type
    /\ SetBits(desired_physical_device_features2[2]) # {}
    /\ SetBits(desired_physical_device_features2[3]) # {}

\* Every create_cmd_pool_and_buffers call that created a pool returned it
CommandCallsReturned ==
    \A q \in DOMAIN vk_command_pools :
        \/ ~vk_command_pools[q].live
        \/ \E cmri \in held_commands : cmri.pool = q

\* C21: create_cmd_pool_and_buffers creates the pool on the Context's selected
\* queue family and returns exactly the requested number of command buffers,
\* all allocated from that pool; destroy_cmd_pool_and_buffers frees those
\* buffers first and destroys the pool second, so that once every returned
\* pair has been destroyed no command pool or command buffer is live.
C21_CommandPools ==
    /\ \A q \in DOMAIN vk_command_pools :
           vk_command_pools[q].queue_family_index = queue_family_index
    /\ outcome = [op |-> "create_cmd_pool_and_buffers", result |-> "ok"] =>
           \E cmri \in held_commands :
               /\ cmri.pool = Len(vk_command_pools)
               /\ Len(cmri.buffers) = Unwrap(last_commands).cmdb_count
               /\ Cardinality(Range(cmri.buffers)) = Unwrap(last_commands).cmdb_count
               /\ vk_command_pools[cmri.pool].flags = Unwrap(last_commands).pool_flags
               /\ \A b \in Range(cmri.buffers) :
                      /\ vk_command_buffers[b].pool = cmri.pool
                      /\ vk_command_buffers[b].level = Unwrap(last_commands).cmdb_level
                      /\ vk_command_buffers[b].live
    /\ \A j \in Positions("destroy_command_pool") :
           /\ j > 1
           /\ calls[j - 1] = Call("free_command_buffers", calls[j].h)
    /\ \A j \in Positions("free_command_buffers") :
           /\ j < Len(calls)
           /\ calls[j + 1] = Call("destroy_command_pool", calls[j].h)
    /\ (CommandCallsReturned /\ held_commands = {}) =>
           /\ \A q \in DOMAIN vk_command_pools : ~vk_command_pools[q].live
           /\ \A b \in DOMAIN vk_command_buffers : ~vk_command_buffers[b].live
C21_Witness ==
    /\ pc = "alive"
    /\ queue_family_index = 1
    /\ outcome = [op |-> "destroy_cmd_pool_and_buffers", result |-> "ok"]
    /\ Len(vk_command_pools) = MaxCmdPools
    /\ Len(vk_command_buffers) >= 3
    /\ CommandCallsReturned
    /\ held_commands = {}

\* C22: a window handle whose tag is not Win32, Xlib or Wayland makes
\* construction fatal while the instance parameters are built: no instance,
\* debug messenger, surface or other Vulkan object has been created, so nothing
\* is left un-released.
C22_UnknownTagFatal ==
    (pc # "start" /\ window_handle \notin {"None", "Win32", "Xlib", "Wayland"}) =>
        /\ pc = "fatal"
        /\ outcome = [op |-> "new", result |-> "Unrecognized window handle"]
        /\ calls = <<>>
        /\ vk_swapchains = <<>> /\ vk_image_views = <<>> /\ vk_buffers = <<>>
        /\ vk_command_pools = <<>>
        /\ surface = NullHandle /\ swapchain = NullHandle
        /\ surface_fn = None /\ swapchain_fn = None
C22_Witness ==
    /\ pc = "fatal"
    /\ window_handle = "AppKit"
    /\ debug_assertions
    /\ Qualified # {}
    /\ calls = <<>>

\* Positions in chain_log of the operations op
ChainPositions(op) == {i \in DOMAIN chain_log : chain_log[i].op = op}

\* C23: construction never mutates or frees the caller-owned features2 chain: it
\* makes one clone of it, queries every device it examines for features (those
\* that passed the extension check) into the clone, destroys the clone exactly
\* once, after the last device has been examined, and hands the caller's own
\* chain, not the clone, to device creation.
C23_CallerChainUntouched ==
    (pc # "start" /\ window_handle \in WindowTags \cup {"None"}) =>
        /\ \A i \in DOMAIN chain_log :
               chain_log[i].chain = "caller" => chain_log[i].op = "create_device"
        /\ ChainPositions("clone") = {1}
        /\ Cardinality(ChainPositions("destroy")) = 1
        /\ \A i \in ChainPositions("destroy") :
               /\ chain_log[i].chain = "clone"
               /\ \A j \in DOMAIN chain_log :
                      (chain_log[j].chain = "clone" /\ j # i) => j < i
        /\ \A d \in DOMAIN physical_devices :
               Cardinality({i \in ChainPositions("get_physical_device_features2") :
                               chain_log[i].device = d /\ chain_log[i].chain = "clone"}) =
                   (IF AdvertisesExtensions(physical_devices[d]) THEN 1 ELSE 0)
        /\ \A i, j \in ChainPositions("get_physical_device_features2") :
               i < j => chain_log[i].device < chain_log[j].device
        /\ Cardinality(ChainPositions("create_device")) = (IF Constructed THEN 1 ELSE 0)
        /\ \A i \in ChainPositions("create_device") :
               /\ chain_log[i].chain = "caller"
               /\ chain_log[i].device = physical_device
               /\ i = Len(chain_log)
C23_Witness ==
    /\ pc = "alive"
    /\ Len(physical_devices) = 2
    /\ Cardinality(ChainPositions("get_physical_device_features2")) = 2
    /\ Len(desired_physical_device_features2) = 2
    /\ physical_device = 2
    /\ chain_log[Len(chain_log)] = ChainOp("create_device", "caller", 2)

\* The calls issued by the step, in order
IssuedByStep == SubSeq(calls', Len(calls) + 1, Len(calls'))

\* C24: inside recreate_swapchain the previous image views are destroyed only
\* after the new swapchain has been created: a call that aborts at or before
\* swapchain creation has destroyed no image view and leaves the image-view
\* sequence holding the previous views; a call that destroys views has issued
\* create_swapchain before the first of them.
C24_Step ==
    RecreateStep =>
        /\ vk_swapchains' = vk_swapchains =>
               /\ panics' = panics + 1
               /\ vk_image_views' = vk_image_views
               /\ swapchain_image_views' = swapchain_image_views
               /\ \A i \in DOMAIN IssuedByStep : IssuedByStep[i].op # "destroy_image_view"
        /\ \A j \in DOMAIN IssuedByStep :
               IssuedByStep[j].op = "destroy_image_view" =>
                   \E i \in 1 .. j - 1 :
                       IssuedByStep[i] = Call("create_swapchain", Len(vk_swapchains'))
C24_ViewsOutliveFailedCreate == [][C24_Step]_vars
C24_Witness ==
    /\ pc = "alive"
    /\ outcome = [op |-> "recreate_swapchain", result |-> "Could not create swapchain"]
    /\ recreate_calls = 2
    /\ Len(vk_swapchains) = 1
    /\ Len(HeldViews) >= 2
    /\ \A v \in Range(HeldViews) : vk_image_views[v].live

\* C25: in every state the caller can observe, after construction and after
\* each recreate_swapchain call, returned or aborted, every image view held in
\* the image-view sequence is live and is a view over an image of the swapchain
\* whose handle the Context holds, never of a replaced one.
C25_HeldViewsCurrent ==
    pc = "alive" =>
        \A i \in DOMAIN HeldViews :
            LET view == vk_image_views[HeldViews[i]]
            IN  /\ view.live
                /\ swapchain # NullHandle
                /\ view.image.swapchain = swapchain
                /\ view.image.index \in 0 .. vk_swapchains[swapchain].images - 1
                /\ \A j \in DOMAIN HeldViews : HeldViews[j] = HeldViews[i] => j = i
C25_Witness ==
    /\ pc = "alive"
    /\ outcome = [op |-> "recreate_swapchain", result |-> "create_image_view failed"]
    /\ swapchain = 2
    /\ Len(HeldViews) >= 1
    /\ \A v \in Range(HeldViews) : vk_image_views[v].image.swapchain = 2
    /\ \E v \in DOMAIN vk_image_views : vk_image_views[v].image.swapchain = 1

\* The call that creates what a destroy call releases
CreateOf(op) ==
    CASE op = "destroy_image_view" -> "create_image_view"
      [] op = "destroy_swapchain" -> "create_swapchain"
      [] op = "destroy_device" -> "create_device"
      [] op = "destroy_surface" -> "create_surface"
      [] op = "destroy_debug_utils_messenger" -> "create_debug_utils_messenger"
      [] op = "destroy_instance" -> "create_instance"
      [] op = "Allocator::drop" -> "Allocator::new"
      [] OTHER -> "none"
Destroys == {j \in DOMAIN calls : CreateOf(calls[j].op) # "none"}

\* C26: over construction, any sequence of recreate_swapchain calls and the
\* final drop, no handle is destroyed more than once and every handle destroyed
\* was created by the Context before; on a Context built without a window no
\* surface or swapchain destruction is issued, and on a windowed Context on
\* which recreate_swapchain was never called no image view is destroyed and
\* only the null swapchain handle is passed to swapchain destruction.
C26_NoDoubleDestroy ==
    /\ \A i, j \in Destroys : calls[i] = calls[j] => i = j
    /\ \A j \in Destroys :
           \/ calls[j] = Call("destroy_swapchain", NullHandle)
           \/ \E i \in 1 .. j - 1 : calls[i] = Call(CreateOf(calls[j].op), calls[j].h)
    /\ pc # "dropped" => \A j \in Destroys : calls[j].op = "destroy_image_view"
    /\ window_handle = "None" =>
           /\ Positions("destroy_surface") = {}
           /\ Positions("destroy_swapchain") = {}
    /\ (Windowed /\ recreate_calls = 0) =>
           /\ Positions("destroy_image_view") = {}
           /\ \A j \in Positions("destroy_swapchain") : calls[j].h = NullHandle
           /\ pc = "dropped" => Cardinality(Positions("destroy_swapchain")) = 1
C26_Witness ==
    /\ pc = "dropped"
    /\ Windowed
    /\ recreate_calls = 0
    /\ CallsOf("destroy_swapchain", NullHandle) # {}
    /\ CallsOf("destroy_surface", 1) # {}

====
